---------------------------- MODULE Spec2Model ----------------------------
(***************************************************************************)
(* Verification model of the ERxn pipeline scripts:                        *)
(*   scripts/09_data_sampling.py   - point-cloud filter, low-count filter, *)
(*                                   train/test/valid split                *)
(*   scripts/13_mol_transformer.py - tokenizer, one-hot encoder,           *)
(*                                   transformer forward pass, training    *)
(*                                   loop                                  *)
(* Each script part has its own specification (Init/Next pair); the        *)
(* variables of the parts a specification does not exercise stay at their  *)
(* idle values.                                                            *)
(***************************************************************************)
EXTENDS Integers, Sequences, FiniteSets, Bags, TLC

(***************************************************************************)
(* Program constants of 09_data_sampling.py                                *)
(***************************************************************************)
MAX_SAMPLES == 100

MIN_SAMPLES == 10

(***************************************************************************)
(* Bounds of the enumerated inputs                                         *)
(***************************************************************************)
\* longest string given to smi_tokenizer
MaxSmiLen == 4

\* one_hot_encoder: largest batch size, sequence length and vocabulary
MaxBatchSize == 2

MaxSeqLength == 2

MaxVocab == 3

\* Transformer: largest head dimension, depth, sequence length, score seed
MaxHeadDim == 4

MaxDepth == 2

MaxSeq == 2

MaxScore == 1

\* training loop: largest number of batches of a loader
MaxBatches == 2

\* largest number of rows of EC class "A" in 02_uniprotID_and_EC_reduced.csv
MaxA == 52

\* point-cloud availability patterns 0..MaxStride (0: every protein has one)
MaxStride == 2

\* number of distinct outcomes enumerated for one DataFrame.sample call
MaxOffset == 1

VARIABLES
    pc09,          \* position in 09_data_sampling.py
    point_clouds,  \* pc_data['point_cloud'].to_list()
    ec_rows,       \* the frame read from the csv, which iterrows() walks
    ec_data,       \* the name ec_data (rebound by drop and by the filter)
    it,            \* number of rows iterrows() has yielded
    pcs,           \* the list pcs
    balanced,      \* rows written to 09_balanced_data_set.csv
    labels,        \* data['EC'].unique()
    li,            \* number of labels the split loop has finished
    train, test, valid,              \* frames of the label processed last
    train_x, train_y, test_x, test_y, val_x, val_y,
    files09        \* 09_train.csv, 09_test.csv, 09_valid.csv

vars09 == <<pc09, point_clouds, ec_rows, ec_data, it, pcs, balanced, labels,
            li, train, test, valid, train_x, train_y, test_x, test_y,
            val_x, val_y, files09>>

VARIABLES
    smi,           \* smi_tokenizer: the argument, a sequence of characters
    tok_pc,        \* "idle", "scan", "returned" or "AssertionError"
    tok_pos,       \* position regex.findall scans from
    tokens,        \* the list tokens
    tok_out        \* the returned string

varsTok == <<smi, tok_pc, tok_pos, tokens, tok_out>>

VARIABLES
    oh_v,          \* one_hot_encoder: the argument v, batch_size x seq_length
    oh_vocab,      \* the argument vocab_size
    oh_out,        \* the tensor out
    oh_batch,      \* the loop variable batch (next value)
    oh_pc          \* "idle", "loop" or "returned"

varsOH == <<oh_v, oh_vocab, oh_out, oh_batch, oh_pc>>

VARIABLES
    embed_dim,       \* Transformer.__init__ argument embed_dim
    n_heads,         \* argument n_heads
    encoder_depth, decoder_depth,
    src_masking, tgt_masking,
    emb_dim,         \* self.embedding.embed_dim (= pos_encoding's embed_dim)
    fwd_pc,          \* position in Transformer.forward
    src_len, tgt_len,  \* src.size(1), tgt.size(1)
    src_mask, tgt_mask,
    x_dim,           \* last dimension of the tensor handed to the blocks
    blk,             \* blocks of the current stack already applied
    attn,            \* the attention module that ran last
    dp,              \* its tensor dp (one batch entry, one head)
    softmax_in       \* the tensor whose softmax it took

varsFwd == <<embed_dim, n_heads, encoder_depth, decoder_depth, src_masking,
             tgt_masking, emb_dim, fwd_pc, src_len, tgt_len, src_mask,
             tgt_mask, x_dim, blk, attn, dp, softmax_in>>

VARIABLES
    epoch,           \* training loop: the loop variable epoch
    tr_pc,           \* "idle", "train", "test", "check" or "done"
    bi,              \* batches of the current pass already processed
    n_train, n_test, \* len(train_loader), len(test_loader)
    stopped,         \* invoke(early_stopping, ...) has returned true
    opt_steps,       \* calls of optimizer.step()
    ckpt_saves,      \* torch.save calls on 13_mol_transformer
    summary_writes,  \* times 13_summary.txt was written
    loss_seed,       \* what the data and the initial weights make of the losses
    batch_loss,      \* the accumulator batch_loss
    train_loss, test_loss,   \* the lists train_loss and test_loss
    summary          \* the list summary

varsTrain == <<epoch, tr_pc, bi, n_train, n_test, stopped, opt_steps,
               ckpt_saves, summary_writes, loss_seed, batch_loss,
               train_loss, test_loss, summary>>

vars == <<vars09, varsTok, varsOH, varsFwd, varsTrain>>

not09 == <<varsTok, varsOH, varsFwd, varsTrain>>

notTok == <<vars09, varsOH, varsFwd, varsTrain>>

notOH == <<vars09, varsTok, varsFwd, varsTrain>>

notFwd == <<vars09, varsTok, varsOH, varsTrain>>

notTrain == <<vars09, varsTok, varsOH, varsFwd>>

(***************************************************************************)
(* Helpers on frames (sequences of rows; a row carries its index label)    *)
(***************************************************************************)
Min(a, b) == IF a < b THEN a ELSE b

\* rows of frame f whose index label is in keep, in order
SelectRows(f, keep) == SelectSeq(f, LAMBDA row : row.index \in keep)

IndexOf(f) == {f[k].index : k \in 1..Len(f)}

\* DataFrame.drop(labels): removes every row whose index label is in labels
Drop(f, lbls) == SelectRows(f, IndexOf(f) \ lbls)

\* groupby('EC')['EC'].transform('count') of one row
CountEC(f, ec) == Cardinality({k \in 1..Len(f) : f[k].EC = ec})

\* Series.unique() of the EC column: values in order of first appearance
Unique(f) ==
    LET firsts == {k \in 1..Len(f) : \A j \in 1..(k - 1) : f[j].EC # f[k].EC}
    IN  [i \in 1..Cardinality(firsts) |->
            f[CHOOSE k \in firsts :
                Cardinality({j \in firsts : j < k}) = i - 1].EC]

\* mutant: rounds half up, floor(num/den + 1/2)
RoundHalfUp(num, den) == (2 * num + den) \div (2 * den)

\* Python round(num/den): round half to even
RoundHalfEven(num, den) ==
    LET q == num \div den
        r == num % den
    IN  IF 2 * r < den THEN q
        ELSE IF 2 * r > den THEN q + 1
        ELSE IF q % 2 = 0 THEN q ELSE q + 1

\* DataFrame.sample(frac=num/den, random_state=1): round(frac*len) rows drawn
\* without replacement; the generator's permutation is not modelled, r picks
\* one outcome (the window of positions starting at r, wrapping around)
SampleSize(n, num, den) == RoundHalfEven(num * n, den)

Sample(f, num, den, r) ==
    LET n == Len(f)
        size == SampleSize(n, num, den)
    IN  [k \in 1..size |-> f[((r + k - 1) % n) + 1]]

SampleOffsets(f) == 0..Min(MaxOffset, Len(f) - 1)

(***************************************************************************)
(* Input data sets of 09_data_sampling.py                                  *)
(***************************************************************************)
\* class of the k-th csv row: the two classes alternate while both last
ClassOf(k, nA, nB) ==
    IF k <= 2 * Min(nA, nB) THEN (IF k % 2 = 1 THEN "A" ELSE "B")
    ELSE IF nA > nB THEN "A" ELSE "B"

\* uniprot id of the k-th csv row (two consecutive rows share a protein)
ProteinOf(k) == "P" \o ToString((k + 1) \div 2)

\* read_csv gives the rows a RangeIndex 0..n-1
InputFrame(nA, nB) ==
    [k \in 1..(nA + nB) |->
        [index |-> k - 1, id |-> ProteinOf(k), EC |-> ClassOf(k, nA, nB)]]

\* point clouds on disk: pattern 0 has one for every protein, pattern m > 0
\* lacks those of the proteins whose number is a multiple of m + 1
InputPointClouds(n, m) ==
    {"P" \o ToString(p) \o ".txt" :
        p \in {q \in 1..((n + 1) \div 2) : m = 0 \/ q % (m + 1) # 0}}
    \cup {"Q0.txt"}

Idle09 ==
    /\ pc09 = "idle"
    /\ point_clouds = {}
    /\ ec_rows = <<>> /\ ec_data = <<>>
    /\ it = 0 /\ pcs = <<>> /\ balanced = <<>>
    /\ labels = <<>> /\ li = 0
    /\ train = <<>> /\ test = <<>> /\ valid = <<>>
    /\ train_x = <<>> /\ train_y = <<>>
    /\ test_x = <<>> /\ test_y = <<>>
    /\ val_x = <<>> /\ val_y = <<>>
    /\ files09 = [train |-> <<>>, test |-> <<>>, valid |-> <<>>]

IdleTok ==
    /\ smi = <<>> /\ tok_pc = "idle" /\ tok_pos = 1
    /\ tokens = <<>> /\ tok_out = <<>>

IdleOH ==
    /\ oh_v = <<>> /\ oh_vocab = 0 /\ oh_out = <<>>
    /\ oh_batch = 0 /\ oh_pc = "idle"

IdleFwd ==
    /\ embed_dim = 0 /\ n_heads = 0
    /\ encoder_depth = 0 /\ decoder_depth = 0
    /\ src_masking = FALSE /\ tgt_masking = FALSE
    /\ emb_dim = 0 /\ fwd_pc = "idle"
    /\ src_len = 0 /\ tgt_len = 0
    /\ src_mask = <<>> /\ tgt_mask = <<>>
    /\ x_dim = 0 /\ blk = 0 /\ attn = "none"
    /\ dp = <<>> /\ softmax_in = <<>>

IdleTrain ==
    /\ epoch = 0 /\ tr_pc = "idle" /\ bi = 0
    /\ n_train = 0 /\ n_test = 0 /\ stopped = FALSE
    /\ opt_steps = 0 /\ ckpt_saves = 0 /\ summary_writes = 0
    /\ loss_seed = 0 /\ batch_loss = 0
    /\ train_loss = <<>> /\ test_loss = <<>> /\ summary = <<>>

Init09 ==
  /\ IdleTok /\ IdleOH /\ IdleFwd /\ IdleTrain
  /\ \E nA \in 0..MaxA, nB \in {0, MIN_SAMPLES - 1, MIN_SAMPLES, MAX_SAMPLES + 1},
       m \in 0..MaxStride :
        /\ ec_rows = InputFrame(nA, nB)
        /\ point_clouds = InputPointClouds(nA + nB, m)
        /\ ec_data = ec_rows
        /\ pc09 = "loop"
        /\ it = 0
        /\ pcs = <<>>
        /\ balanced = <<>>
        /\ labels = <<>>
        /\ li = 0
        /\ train = <<>> /\ test = <<>> /\ valid = <<>>
        /\ train_x = <<>> /\ train_y = <<>>
        /\ test_x = <<>> /\ test_y = <<>>
        /\ val_x = <<>> /\ val_y = <<>>
        /\ files09 = [train |-> <<>>, test |-> <<>>, valid |-> <<>>]

(***************************************************************************)
(* 09_data_sampling.py lines 23-31: remove rows without a point cloud      *)
(***************************************************************************)
DropRow ==
    /\ pc09 = "loop"
    /\ it < Len(ec_rows)
    /\ LET row == ec_rows[it + 1]
           protein == row.id \o ".txt"
       IN  /\ protein \notin point_clouds
           /\ ec_data' = Drop(ec_data, {row.index})
           /\ pcs' = pcs
    /\ it' = it + 1
    /\ UNCHANGED <<pc09, point_clouds, ec_rows, balanced, labels, li, train,
                   test, valid, train_x, train_y, test_x, test_y, val_x,
                   val_y, files09>>
    /\ UNCHANGED not09

\* mutant: appends row[0] without the '.txt' suffix
KeepRowAppendsId ==
    /\ pc09 = "loop"
    /\ it < Len(ec_rows)
    /\ LET row == ec_rows[it + 1]
           protein == row.id \o ".txt"
       IN  /\ protein \in point_clouds
           /\ pcs' = Append(pcs, row.id)
           /\ ec_data' = ec_data
    /\ it' = it + 1
    /\ UNCHANGED <<pc09, point_clouds, ec_rows, balanced, labels, li, train,
                   test, valid, train_x, train_y, test_x, test_y, val_x,
                   val_y, files09>>
    /\ UNCHANGED not09

KeepRow ==
    /\ pc09 = "loop"
    /\ it < Len(ec_rows)
    /\ LET row == ec_rows[it + 1]
           protein == row.id \o ".txt"
       IN  /\ protein \in point_clouds
           /\ pcs' = Append(pcs, protein)
           /\ ec_data' = ec_data
    /\ it' = it + 1
    /\ UNCHANGED <<pc09, point_clouds, ec_rows, balanced, labels, li, train,
                   test, valid, train_x, train_y, test_x, test_y, val_x,
                   val_y, files09>>
    /\ UNCHANGED not09

(***************************************************************************)
(* lines 33-51: protein column, low-count filter, balanced csv, labels     *)
(***************************************************************************)
\* ec_data['protein'] = pcs (a list of another length raises ValueError)
WithProtein(f, lst) == [k \in 1..Len(f) |->
    [index |-> f[k].index, id |-> f[k].id, EC |-> f[k].EC, protein |-> lst[k]]]

\* mutant: keeps only the classes with more than MIN_SAMPLES rows
LowCountFilterStrict(f) ==
    LET big == {ec \in {f[k].EC : k \in 1..Len(f)} :
                        CountEC(f, ec) > MIN_SAMPLES}
    IN  SelectSeq(f, LAMBDA row : row.EC \in big)

\* ec_data[ec_data.groupby('EC')['EC'].transform('count') >= MIN_SAMPLES]
LowCountFilter(f) ==
    LET big == {ec \in {f[k].EC : k \in 1..Len(f)} :
                        CountEC(f, ec) >= MIN_SAMPLES}
    IN  SelectSeq(f, LAMBDA row : row.EC \in big)

FilterLowCounts ==
    /\ pc09 = "loop"
    /\ it = Len(ec_rows)
    /\ Len(pcs) = Len(ec_data)
    /\ ec_data' = LowCountFilter(WithProtein(ec_data, pcs))
    /\ balanced' = ec_data'
    /\ labels' = Unique(ec_data')
    /\ li' = 0
    /\ pc09' = "split"
    /\ UNCHANGED <<point_clouds, ec_rows, it, pcs, train, test, valid,
                   train_x, train_y, test_x, test_y, val_x, val_y, files09>>
    /\ UNCHANGED not09

(***************************************************************************)
(* lines 59-89: split one label into train, test and valid                 *)
(***************************************************************************)
\* the x list gets row[0] (first column), the y list row[1] (second column)
Col0(f) == [k \in 1..Len(f) |-> f[k].id]

Col1(f) == [k \in 1..Len(f) |-> f[k].EC]

\* train = df.drop(test.index)
TrainOf(df, test0) == Drop(df, IndexOf(test0))

\* mutant: the valid rows are not dropped from test
TestKeepsValid(test0, valid0) == test0

\* test = test.drop(valid.index)
TestOf(test0, valid0) == Drop(test0, IndexOf(valid0))

SplitLabel ==
    /\ pc09 = "split"
    /\ li < Len(labels)
    /\ LET label == labels[li + 1]
           df == SelectSeq(ec_data, LAMBDA row : row.EC = label)
           num_data == Len(df)
           den == IF num_data >= 20 THEN 4 ELSE 2
       IN  \E r1 \in SampleOffsets(df) :
             LET test0 == Sample(df, 1, 5, r1)
             IN  \E r2 \in SampleOffsets(test0) :
                   LET valid0 == Sample(test0, 1, den, r2)
                       train0 == TrainOf(df, test0)
                       test1 == TestOf(test0, valid0)
                   IN  /\ train' = train0
                       /\ test' = test1
                       /\ valid' = valid0
                       /\ train_x' = train_x \o Col0(train0)
                       /\ train_y' = train_y \o Col1(train0)
                       /\ test_x' = test_x \o Col0(test1)
                       /\ test_y' = test_y \o Col1(test1)
                       /\ val_x' = val_x \o Col0(valid0)
                       /\ val_y' = val_y \o Col1(valid0)
    /\ li' = li + 1
    /\ UNCHANGED <<pc09, point_clouds, ec_rows, ec_data, it, pcs, balanced,
                   labels, files09>>
    /\ UNCHANGED not09

(***************************************************************************)
(* lines 92-109: write 09_train.csv, 09_test.csv, 09_valid.csv             *)
(***************************************************************************)
\* pd.DataFrame({'point_cloud': xs, 'EC': ys})
XYFrame(xs, ys) == [k \in 1..Len(xs) |-> [point_cloud |-> xs[k], EC |-> ys[k]]]

WriteSplits ==
    /\ pc09 = "split"
    /\ li = Len(labels)
    /\ files09' = [train |-> XYFrame(train_x, train_y),
                   test  |-> XYFrame(test_x, test_y),
                   valid |-> XYFrame(val_x, val_y)]
    /\ pc09' = "done"
    /\ UNCHANGED <<point_clouds, ec_rows, ec_data, it, pcs, balanced, labels,
                   li, train, test, valid, train_x, train_y, test_x, test_y,
                   val_x, val_y>>
    /\ UNCHANGED not09

Next09 == DropRow \/ KeepRow \/ FilterLowCounts \/ SplitLabel \/ WriteSplits

Init == Init09

Next == Next09

Spec == Init /\ [][Next]_vars

(***************************************************************************)
(* Properties of 09_data_sampling.py                                       *)
(***************************************************************************)
HasPointCloud(row) == (row.id \o ".txt") \in point_clouds

\* the csv rows that have a point cloud, in csv order
PostPC == SelectSeq(ec_rows, HasPointCloud)

Classes == {ec_rows[k].EC : k \in 1..Len(ec_rows)}

ClassIndex(f, ec) == {f[k].index : k \in {j \in 1..Len(f) : f[j].EC = ec}}

Filtered09 == pc09 \in {"split", "done"}

\* C1: after the low-count filter every EC class present in the balanced
\* data set has at least MIN_SAMPLES rows, and every class that had at least
\* MIN_SAMPLES rows after the point-cloud filter keeps all of its rows.
C1_LowCountFilter ==
    Filtered09 =>
        \A ec \in Classes :
            /\ CountEC(balanced, ec) > 0 => CountEC(balanced, ec) >= MIN_SAMPLES
            /\ CountEC(PostPC, ec) >= MIN_SAMPLES =>
                    ClassIndex(balanced, ec) = ClassIndex(PostPC, ec)

C1_Witness ==
    /\ Filtered09
    /\ \E ec \in Classes : CountEC(PostPC, ec) = MIN_SAMPLES
                            /\ CountEC(balanced, ec) = MIN_SAMPLES
    /\ \E ec \in Classes : CountEC(PostPC, ec) \in 1..(MIN_SAMPLES - 1)
                            /\ CountEC(balanced, ec) = 0

\* C2: the balanced data set contains no EC class with more than
\* MAX_SAMPLES rows.
C2_MaxSamples ==
    Filtered09 => \A ec \in Classes : CountEC(balanced, ec) <= MAX_SAMPLES

\* C3: the split is a partition: for every retained class the rows put in
\* train, test and valid are pairwise disjoint and together are exactly the
\* rows of the class, and every balanced row appears exactly once in the
\* three written files, paired with its own EC label.
PairBag(ps) ==
    [p \in {ps[k] : k \in 1..Len(ps)} |->
        Cardinality({k \in 1..Len(ps) : ps[k] = p})]

WrittenPairs(f) == [k \in 1..Len(f) |-> <<f[k].point_cloud, f[k].EC>>]

BalancedPairs(f) == [k \in 1..Len(f) |-> <<f[k].id, f[k].EC>>]

C3_SplitIsPartition ==
    /\ (pc09 = "split" /\ li > 0) =>
          LET cls == ClassIndex(balanced, labels[li])
          IN  /\ IndexOf(train) \cap IndexOf(test) = {}
              /\ IndexOf(train) \cap IndexOf(valid) = {}
              /\ IndexOf(test) \cap IndexOf(valid) = {}
              /\ IndexOf(train) \cup IndexOf(test) \cup IndexOf(valid) = cls
              /\ Len(train) + Len(test) + Len(valid) = Cardinality(cls)
              /\ \A k \in 1..Len(train) : train[k].EC = labels[li]
              /\ \A k \in 1..Len(test) : test[k].EC = labels[li]
              /\ \A k \in 1..Len(valid) : valid[k].EC = labels[li]
    /\ pc09 = "done" =>
          PairBag(WrittenPairs(files09.train \o files09.test \o files09.valid))
            = PairBag(BalancedPairs(balanced))

C3_Witness ==
    /\ pc09 = "done"
    /\ Len(labels) = 2
    /\ Len(files09.train) > 0 /\ Len(files09.test) > 0
    /\ Len(files09.valid) > 0
    /\ \E j, k \in 1..Len(balanced) :
          j # k /\ balanced[j].id = balanced[k].id
                /\ balanced[j].EC = balanced[k].EC

\* C9: the point-cloud loop keeps exactly the rows whose first column plus
\* '.txt' is in point_clouds, in order; at every step pcs has one entry per
\* row kept so far, so after the loop pcs[i] is the file name of the i-th
\* remaining row and the 'protein' column is aligned.
C9_PointCloudLoop ==
    /\ pc09 = "loop" =>
          LET kept == SelectSeq(SubSeq(ec_rows, 1, it), HasPointCloud)
          IN  /\ ec_data = kept \o SubSeq(ec_rows, it + 1, Len(ec_rows))
              /\ pcs = [k \in 1..Len(kept) |-> kept[k].id \o ".txt"]
    /\ Filtered09 =>
          \A k \in 1..Len(balanced) :
              balanced[k].protein = balanced[k].id \o ".txt"

C9_Witness ==
    /\ pc09 = "loop"
    /\ it = Len(ec_rows)
    /\ Len(pcs) >= MIN_SAMPLES
    /\ Len(ec_data) < Len(ec_rows)
    /\ \E k \in 1..Len(ec_data) : ec_data[k].index # k - 1

\* C10: a retained class with n rows (n >= MIN_SAMPLES) gives n - t rows to
\* train, t - v to test and v to valid, where t = round(0.2 n) and
\* v = round(f t), f = 0.25 if n >= 20 and 0.5 otherwise, rounding half to
\* even; all three numbers are at least 1.
Abs(x) == IF x < 0 THEN -x ELSE x

\* v is num/den rounded to the nearest integer, ties to the even one
IsRounded(v, num, den) ==
    \/ 2 * Abs(den * v - num) < den
    \/ 2 * Abs(den * v - num) = den /\ v % 2 = 0

C10_SplitSizes ==
    (pc09 = "split" /\ li > 0) =>
        LET n == CountEC(balanced, labels[li])
            t == Len(test) + Len(valid)
            v == Len(valid)
        IN  /\ n >= MIN_SAMPLES
            /\ IsRounded(t, n, 5)
            /\ IsRounded(v, t, IF n >= 20 THEN 4 ELSE 2)
            /\ Len(train) = n - t
            /\ Len(train) >= 1 /\ Len(test) >= 1 /\ Len(valid) >= 1

C10_Witness ==
    /\ pc09 = "split" /\ li > 0
    /\ Len(test) + Len(valid) = 10
    /\ Len(valid) = 2
    /\ Len(train) = 40

(***************************************************************************)
(* 13_mol_transformer.py lines 34-43: smi_tokenizer                        *)
(* Strings are sequences of one-character strings.                         *)
(***************************************************************************)
\* characters of the enumerated inputs
SmiAlphabet == {"[", "]", "B", "r", "N", "%", "1", " "}

Digits == {"0", "1", "2", "3", "4", "5", "6", "7", "8", "9"}

\* the one-character alternatives N|O|S|P|F|I|b|c|n|o|s|p|\(|\)|\.|=|#|-|\+|
\* \\\\|\/|:|~|@|\?|>|\*|\$ of the pattern
SingleCharTokens ==
    {"N", "O", "S", "P", "F", "I", "b", "c", "n", "o", "s", "p", "(", ")",
     ".", "=", "#", "-", "+", "\\", "/", ":", "~", "@", "?", ">", "*", "$"}

\* length of the match of the pattern at position p of s, 0 if none; the
\* alternatives are tried in the order the pattern lists them
MatchLen(s, p) ==
    LET n == Len(s)
        c == s[p]
        closers == {j \in (p + 1)..n : s[j] = "]"}
        close == IF closers = {} THEN 0
                 ELSE CHOOSE j \in closers : \A k \in closers : j <= k
    IN  IF c = "[" /\ close >= p + 2 THEN close - p + 1
        ELSE IF c = "B" THEN (IF p < n /\ s[p + 1] = "r" THEN 2 ELSE 1)
        ELSE IF c = "C" THEN (IF p < n /\ s[p + 1] = "l" THEN 2 ELSE 1)
        ELSE IF c \in SingleCharTokens THEN 1
        ELSE IF c = "%" /\ p + 2 <= n /\ s[p + 1] \in Digits
                /\ s[p + 2] \in Digits THEN 3
        ELSE IF c \in Digits THEN 1
        ELSE 0

\* ''.join(tokens)
RECURSIVE Concat(_)
Concat(ts) == IF ts = <<>> THEN <<>> ELSE Head(ts) \o Concat(Tail(ts))

\* ' '.join(tokens)
RECURSIVE JoinSpace(_)
JoinSpace(ts) ==
    IF ts = <<>> THEN <<>>
    ELSE IF Len(ts) = 1 THEN Head(ts)
    ELSE Head(ts) \o <<" ">> \o JoinSpace(Tail(ts))

RECURSIVE Strings(_)
Strings(n) ==
    IF n = 0 THEN {<<>>}
    ELSE LET shorter == Strings(n - 1)
         IN  shorter \cup {Append(t, c) : t \in shorter, c \in SmiAlphabet}

InitTok ==
    /\ Idle09 /\ IdleOH /\ IdleFwd /\ IdleTrain
    /\ smi \in Strings(MaxSmiLen)
    /\ tok_pc = "scan"
    /\ tok_pos = 1
    /\ tokens = <<>>
    /\ tok_out = <<>>

\* regex.findall: the next match starts at the scan position
ScanToken ==
    /\ tok_pc = "scan"
    /\ tok_pos <= Len(smi)
    /\ MatchLen(smi, tok_pos) > 0
    /\ tokens' = Append(tokens,
                    SubSeq(smi, tok_pos, tok_pos + MatchLen(smi, tok_pos) - 1))
    /\ tok_pos' = tok_pos + MatchLen(smi, tok_pos)
    /\ UNCHANGED <<smi, tok_pc, tok_out>>
    /\ UNCHANGED notTok

\* regex.findall: no alternative matches here, the search moves one on
ScanSkip ==
    /\ tok_pc = "scan"
    /\ tok_pos <= Len(smi)
    /\ MatchLen(smi, tok_pos) = 0
    /\ tok_pos' = tok_pos + 1
    /\ UNCHANGED <<smi, tok_pc, tokens, tok_out>>
    /\ UNCHANGED notTok

\* mutant: returns without the assertion
TokReturnNoAssert ==
    /\ tok_pc = "scan"
    /\ tok_pos > Len(smi)
    /\ tok_pc' = "returned"
    /\ tok_out' = JoinSpace(tokens)
    /\ UNCHANGED <<smi, tok_pos, tokens>>
    /\ UNCHANGED notTok

\* assert smi == ''.join(tokens); return ' '.join(tokens)
TokReturn ==
    /\ tok_pc = "scan"
    /\ tok_pos > Len(smi)
    /\ smi = Concat(tokens)
    /\ tok_pc' = "returned"
    /\ tok_out' = JoinSpace(tokens)
    /\ UNCHANGED <<smi, tok_pos, tokens>>
    /\ UNCHANGED notTok

TokAssertFails ==
    /\ tok_pc = "scan"
    /\ tok_pos > Len(smi)
    /\ smi # Concat(tokens)
    /\ tok_pc' = "AssertionError"
    /\ UNCHANGED <<smi, tok_pos, tokens, tok_out>>
    /\ UNCHANGED notTok

NextTok == ScanToken \/ ScanSkip \/ TokReturn \/ TokAssertFails

SpecTok == InitTok /\ [][NextTok]_vars

\* C7: smi_tokenizer is lossless: it either returns the tokens joined by
\* single spaces, and the returned string without those separators is the
\* input, or it fails its assertion, which happens only when the input has
\* a character that no token covers.
\* positions of the separators in the returned string
SeparatorPositions(ts) ==
    {Len(Concat(SubSeq(ts, 1, k))) + k : k \in 1..(Len(ts) - 1)}

WithoutSeparators(out, ts) ==
    LET seps == SeparatorPositions(ts)
        keep == {q \in 1..Len(out) : q \notin seps}
    IN  [i \in 1..Cardinality(keep) |->
            out[CHOOSE q \in keep : Cardinality({x \in keep : x < q}) = i - 1]]

C7_TokenizerLossless ==
    /\ tok_pc = "returned" =>
          /\ \A q \in SeparatorPositions(tokens) : tok_out[q] = " "
          /\ Len(tok_out) = Len(smi) + Len(tokens) - (IF tokens = <<>> THEN 0 ELSE 1)
          /\ WithoutSeparators(tok_out, tokens) = smi
          /\ \A k \in 1..Len(tokens) : tokens[k] # <<>>
    /\ tok_pc = "AssertionError" =>
          \E q \in 1..Len(smi) :
              \A p \in 1..q : p + MatchLen(smi, p) <= q

C7_Witness ==
    /\ tok_pc = "returned"
    /\ Len(tokens) = 2
    /\ Len(tokens[1]) = 3
    /\ Len(tok_out) = MaxSmiLen + 1

(***************************************************************************)
(* 13_mol_transformer.py lines 100-119: one_hot_encoder                    *)
(* Tensors are indexed from 1 here; token ids are 0..vocab_size-1.         *)
(***************************************************************************)
\* torch.zeros((v.size(0), v.size(1), vocab_size))
Zeros3(b, l, n) == [x \in 1..b |-> [y \in 1..l |-> [t \in 0..(n - 1) |-> 0]]]

\* for i, token in enumerate(v[0, :]): out[batch, i, token] = 1
EncodeRow(out, v, batch) ==
    [out EXCEPT ![batch] =
        [i \in 1..Len(v[1]) |-> [out[batch][i] EXCEPT ![v[1][i]] = 1]]]

InitOH ==
    /\ Idle09 /\ IdleTok /\ IdleFwd /\ IdleTrain
    /\ oh_vocab \in 1..MaxVocab
    /\ \E b \in 1..MaxBatchSize, l \in 1..MaxSeqLength :
          /\ oh_v \in [1..b -> [1..l -> 0..(oh_vocab - 1)]]
          /\ oh_out = Zeros3(b, l, oh_vocab)
    /\ oh_batch = 1
    /\ oh_pc = "loop"

\* one pass of the loop over range(v.size(0))
OneHotBatch ==
    /\ oh_pc = "loop"
    /\ oh_batch <= Len(oh_v)
    /\ oh_out' = EncodeRow(oh_out, oh_v, oh_batch)
    /\ oh_batch' = oh_batch + 1
    /\ UNCHANGED <<oh_v, oh_vocab, oh_pc>>
    /\ UNCHANGED notOH

OneHotReturn ==
    /\ oh_pc = "loop"
    /\ oh_batch > Len(oh_v)
    /\ oh_pc' = "returned"
    /\ UNCHANGED <<oh_v, oh_vocab, oh_out, oh_batch>>
    /\ UNCHANGED notOH

NextOH == OneHotBatch \/ OneHotReturn

SpecOH == InitOH /\ [][NextOH]_vars

\* C6: one_hot_encoder one-hot encodes every sentence of the batch, also
\* when the rows of v differ: out[b, i, t] is 1 if t = v[b, i], otherwise 0.
C6_OneHotEveryRow ==
    oh_pc = "returned" =>
        \A b \in 1..Len(oh_v) : \A i \in 1..Len(oh_v[b]) :
            \A t \in 0..(oh_vocab - 1) :
                oh_out[b][i][t] = (IF t = oh_v[b][i] THEN 1 ELSE 0)

(***************************************************************************)
(* 13_mol_transformer.py lines 122-647: the Transformer and its forward    *)
(* pass.  Of a tensor the model keeps its last dimension; of an attention  *)
(* call the scores dp of one batch entry and head, and what softmax gets.  *)
(***************************************************************************)
\* default of the embed_dim parameter of Embedding.__init__ and of
\* PositionalEncoding.__init__
EmbedDimDefault == 512

HeadChoices == {1, 2, 4, 8}

\* tensor elements: finite numbers and the IEEE specials
Fin(x) == <<"fin", x>>

NegInf == <<"-inf", 0>>

PosInf == <<"inf", 0>>

NaN == <<"nan", 0>>

\* a mask argument that is None
NoMask == <<>>

\* Transformer.generate_mask: torch.triu(ones(sz, sz) * -inf, diagonal=1)
generate_mask(sz) ==
    [i \in 1..sz |-> [j \in 1..sz |-> IF j > i THEN NegInf ELSE Fin(0)]]

\* the scores k_t @ q * scale: finite numbers that depend on the weights
Scores(rows, cols, seed) ==
    [i \in 1..rows |-> [j \in 1..cols |->
        Fin((seed + i + 2 * j) % (MaxScore + 1))]]

RECURSIVE SumSeq(_)
SumSeq(q) == IF q = <<>> THEN 0 ELSE Head(q)[2] + SumSeq(Tail(q))

\* torch.einsum('xy,abcd->abxy', mask, dp): mask[x, y] times the sum of dp
\* over its last two axes
MaskEinsum(mask, scores) ==
    LET total == SumSeq([i \in 1..Len(scores) |-> Fin(SumSeq(scores[i]))])
    IN  [x \in 1..Len(mask) |-> [y \in 1..Len(mask[x]) |->
            IF mask[x][y] = Fin(0) THEN Fin(0)
            ELSE IF total > 0 THEN NegInf
            ELSE IF total < 0 THEN PosInf ELSE NaN]]

\* lines 258-261 and 333-336: the einsum's result is not assigned, softmax
\* is taken of dp itself
SoftmaxInput(scores, mask) ==
    IF mask = NoMask THEN scores
    ELSE LET unused == MaskEinsum(mask, scores) IN scores

\* softmax gives weight zero exactly to the scores that are -inf
ZeroWeight(score) == score = NegInf

\* Transformer.__init__ (lines 548-601) followed by a call of forward
InitFwd ==
    /\ Idle09 /\ IdleTok /\ IdleOH /\ IdleTrain
    /\ n_heads \in HeadChoices
    /\ embed_dim \in {n_heads * h : h \in 1..MaxHeadDim}
                     \cup {d \in {EmbedDimDefault \div 2, EmbedDimDefault,
                                  2 * EmbedDimDefault} : d % n_heads = 0}
    /\ encoder_depth \in 1..MaxDepth
    /\ decoder_depth \in 1..MaxDepth
    /\ src_masking \in BOOLEAN
    /\ tgt_masking \in BOOLEAN
    /\ emb_dim = EmbedDimDefault
    /\ src_len \in 1..MaxSeq
    /\ tgt_len \in 1..MaxSeq
    /\ fwd_pc = "masks"
    /\ src_mask = NoMask /\ tgt_mask = NoMask
    /\ x_dim = 0 /\ blk = 0 /\ attn = "none"
    /\ dp = <<>> /\ softmax_in = <<>>

\* lines 619-627
ForwardMasks ==
    /\ fwd_pc = "masks"
    /\ src_mask' = IF src_masking THEN generate_mask(src_len) ELSE NoMask
    /\ tgt_mask' = IF tgt_masking THEN generate_mask(tgt_len) ELSE NoMask
    /\ fwd_pc' = "embed_src"
    /\ UNCHANGED <<embed_dim, n_heads, encoder_depth, decoder_depth,
                   src_masking, tgt_masking, emb_dim, src_len, tgt_len,
                   x_dim, blk, attn, dp, softmax_in>>
    /\ UNCHANGED notFwd

\* lines 629-631: embedding, positional encoding, dropout of src
ForwardEmbedSrc ==
    /\ fwd_pc = "embed_src"
    /\ x_dim' = emb_dim
    /\ blk' = 0
    /\ fwd_pc' = "encoder"
    /\ UNCHANGED <<embed_dim, n_heads, encoder_depth, decoder_depth,
                   src_masking, tgt_masking, emb_dim, src_len, tgt_len,
                   src_mask, tgt_mask, attn, dp, softmax_in>>
    /\ UNCHANGED notFwd

\* lines 241-242 and 317-318: dim != self.dim raises ValueError
AttentionValueError ==
    /\ \/ fwd_pc = "encoder" /\ blk < encoder_depth
       \/ fwd_pc \in {"decoder", "decoder_ed"} /\ blk < decoder_depth
    /\ x_dim # embed_dim
    /\ fwd_pc' = "ValueError"
    /\ UNCHANGED <<embed_dim, n_heads, encoder_depth, decoder_depth,
                   src_masking, tgt_masking, emb_dim, src_len, tgt_len,
                   src_mask, tgt_mask, x_dim, blk, attn, dp, softmax_in>>
    /\ UNCHANGED notFwd

\* lines 633-634: one EncoderBlock (SelfAttention.forward, lines 239-270)
EncoderBlockForward ==
    /\ fwd_pc = "encoder"
    /\ blk < encoder_depth
    /\ x_dim = embed_dim
    /\ \E seed \in 0..MaxScore :
          /\ dp' = Scores(src_len, src_len, seed)
          /\ softmax_in' = SoftmaxInput(dp', src_mask)
    /\ attn' = "enc_self"
    /\ blk' = blk + 1
    /\ UNCHANGED <<embed_dim, n_heads, encoder_depth, decoder_depth,
                   src_masking, tgt_masking, emb_dim, fwd_pc, src_len,
                   tgt_len, src_mask, tgt_mask, x_dim>>
    /\ UNCHANGED notFwd

\* lines 636-638: embedding, positional encoding, dropout of tgt
ForwardEmbedTgt ==
    /\ fwd_pc = "encoder"
    /\ blk = encoder_depth
    /\ x_dim' = emb_dim
    /\ blk' = 0
    /\ fwd_pc' = "decoder"
    /\ UNCHANGED <<embed_dim, n_heads, encoder_depth, decoder_depth,
                   src_masking, tgt_masking, emb_dim, src_len, tgt_len,
                   src_mask, tgt_mask, attn, dp, softmax_in>>
    /\ UNCHANGED notFwd

\* line 517: self.self_attn(x, mask) of one DecoderBlock
DecoderSelfAttention ==
    /\ fwd_pc = "decoder"
    /\ blk < decoder_depth
    /\ x_dim = embed_dim
    /\ \E seed \in 0..MaxScore :
          /\ dp' = Scores(tgt_len, tgt_len, seed)
          /\ softmax_in' = SoftmaxInput(dp', tgt_mask)
    /\ attn' = "dec_self"
    /\ fwd_pc' = "decoder_ed"
    /\ UNCHANGED <<embed_dim, n_heads, encoder_depth, decoder_depth,
                   src_masking, tgt_masking, emb_dim, src_len, tgt_len,
                   src_mask, tgt_mask, x_dim, blk>>
    /\ UNCHANGED notFwd

\* lines 519-525: self.encoder_decoder_attn(attn_add_norm, k, v, mask)
\* (EncoderDecoderAttention.forward, lines 315-345) and the rest of the block
DecoderEncDecAttention ==
    /\ fwd_pc = "decoder_ed"
    /\ blk < decoder_depth
    /\ x_dim = embed_dim
    /\ \E seed \in 0..MaxScore :
          /\ dp' = Scores(tgt_len, src_len, seed)
          /\ softmax_in' = SoftmaxInput(dp', tgt_mask)
    /\ attn' = "enc_dec"
    /\ blk' = blk + 1
    /\ fwd_pc' = "decoder"
    /\ UNCHANGED <<embed_dim, n_heads, encoder_depth, decoder_depth,
                   src_masking, tgt_masking, emb_dim, src_len, tgt_len,
                   src_mask, tgt_mask, x_dim>>
    /\ UNCHANGED notFwd

\* lines 643-647: head, softmax, permute, return
ForwardReturn ==
    /\ fwd_pc = "decoder"
    /\ blk = decoder_depth
    /\ fwd_pc' = "returned"
    /\ UNCHANGED <<embed_dim, n_heads, encoder_depth, decoder_depth,
                   src_masking, tgt_masking, emb_dim, src_len, tgt_len,
                   src_mask, tgt_mask, x_dim, blk, attn, dp, softmax_in>>
    /\ UNCHANGED notFwd

NextFwd ==
    \/ ForwardMasks \/ ForwardEmbedSrc \/ AttentionValueError
    \/ EncoderBlockForward \/ ForwardEmbedTgt \/ DecoderSelfAttention
    \/ DecoderEncDecAttention \/ ForwardReturn

SpecFwd == InitFwd /\ [][NextFwd]_vars

\* C4: with tgt_masking the -inf mask is applied to the decoder attention
\* scores before the softmax: target position i gives weight zero to every
\* position j > i, and for a sequence of length 2 or more the scores fed to
\* softmax differ from the unmasked ones.
C4_TargetMaskApplied ==
    (attn = "dec_self" /\ tgt_masking /\ tgt_len >= 2) =>
        /\ \A i \in 1..tgt_len : \A j \in (i + 1)..tgt_len :
                ZeroWeight(softmax_in[i][j])
        /\ softmax_in # dp

\* C8: embed_dim is the dimensionality of the token embeddings and of the
\* positional encoding, so for every embed_dim divisible by n_heads the
\* attention blocks get inputs of last dimension embed_dim and no ValueError
\* is raised.
C8_EmbedDimUsed ==
    embed_dim % n_heads = 0 =>
        /\ fwd_pc \in {"encoder", "decoder", "decoder_ed"} => x_dim = embed_dim
        /\ fwd_pc # "ValueError"

(***************************************************************************)
(* 13_mol_transformer.py lines 674-733: the training loop                  *)
(***************************************************************************)
num_epochs == 1000

\* loss.data of batch i of a pass of epoch e: a positive number that depends
\* on the batch and on the weights at that point
BatchLoss(seed, e, pass, i) ==
    1 + ((seed + e + 2 * i + (IF pass = "test" THEN 1 ELSE 0))
            % 3)

\* the loss sequences enumerated
LossSeeds == {0, 1}

\* batch_loss / len(loader): true division, kept as the fraction <<num, den>>
Quotient(num, den) == <<num, den>>

\* 'Train Epoch: {}\tLoss: {:.6f}\tTest Loss: {:.6f} %'.format(...)
SummaryLine(e, tr, te) == <<"Train Epoch", e, tr, te>>

\* f'Early stopping after {epoch} epochs'
EarlyStoppingLine(e) == <<"Early stopping after", e>>

Last(q) == q[Len(q)]

InitTrain ==
    /\ Idle09 /\ IdleTok /\ IdleOH /\ IdleFwd
    /\ n_train \in 1..MaxBatches
    /\ n_test \in 1..MaxBatches
    /\ loss_seed \in LossSeeds
    /\ epoch = 0
    /\ tr_pc = "train"
    /\ bi = 0
    /\ stopped = FALSE
    /\ opt_steps = 0 /\ ckpt_saves = 0 /\ summary_writes = 0
    /\ batch_loss = 0
    /\ train_loss = <<>> /\ test_loss = <<>> /\ summary = <<>>

\* lines 680-692: one training batch (forward, loss, backward, step)
TrainBatch ==
    /\ tr_pc = "train"
    /\ bi < n_train
    /\ opt_steps' = opt_steps + 1
    /\ batch_loss' = batch_loss + BatchLoss(loss_seed, epoch, "train", bi)
    /\ bi' = bi + 1
    /\ UNCHANGED <<epoch, tr_pc, n_train, n_test, stopped, ckpt_saves,
                   summary_writes, loss_seed, train_loss, test_loss, summary>>
    /\ UNCHANGED notTrain

\* mutant: batch_loss is not reset before the test pass
EndTrainPassNoReset ==
    /\ tr_pc = "train"
    /\ bi = n_train
    /\ train_loss' = Append(train_loss, Quotient(batch_loss, n_train))
    /\ batch_loss' = batch_loss
    /\ tr_pc' = "test"
    /\ bi' = 0
    /\ UNCHANGED <<epoch, n_train, n_test, stopped, opt_steps, ckpt_saves,
                   summary_writes, loss_seed, test_loss, summary>>
    /\ UNCHANGED notTrain

\* lines 694-698: the train loader is exhausted
EndTrainPass ==
    /\ tr_pc = "train"
    /\ bi = n_train
    /\ train_loss' = Append(train_loss, Quotient(batch_loss, n_train))
    /\ batch_loss' = 0
    /\ tr_pc' = "test"
    /\ bi' = 0
    /\ UNCHANGED <<epoch, n_train, n_test, stopped, opt_steps, ckpt_saves,
                   summary_writes, loss_seed, test_loss, summary>>
    /\ UNCHANGED notTrain

\* lines 699-706: one test batch
TestBatch ==
    /\ tr_pc = "test"
    /\ bi < n_test
    /\ batch_loss' = batch_loss + BatchLoss(loss_seed, epoch, "test", bi)
    /\ bi' = bi + 1
    /\ UNCHANGED <<epoch, tr_pc, n_train, n_test, stopped, opt_steps,
                   ckpt_saves, summary_writes, loss_seed, train_loss,
                   test_loss, summary>>
    /\ UNCHANGED notTrain

\* lines 710-718: the test loader is exhausted, the summary line is appended
EndTestPass ==
    /\ tr_pc = "test"
    /\ bi = n_test
    /\ test_loss' = Append(test_loss, Quotient(batch_loss, n_test))
    /\ summary' = Append(summary,
                     SummaryLine(epoch, Last(train_loss), Last(test_loss')))
    /\ tr_pc' = "check"
    /\ UNCHANGED <<epoch, bi, n_train, n_test, stopped, opt_steps,
                   ckpt_saves, summary_writes, loss_seed, batch_loss,
                   train_loss>>
    /\ UNCHANGED notTrain

\* mutant: the early stop is recorded but the loop is not left
EarlyStopNoBreak ==
    /\ tr_pc = "check"
    /\ stopped' = TRUE
    /\ summary' = Append(summary, EarlyStoppingLine(epoch))
    /\ IF epoch + 1 < num_epochs
          THEN /\ epoch' = epoch + 1 /\ tr_pc' = "train" /\ bi' = 0
               /\ batch_loss' = 0
          ELSE /\ epoch' = epoch /\ tr_pc' = "done" /\ bi' = bi
               /\ batch_loss' = batch_loss
    /\ UNCHANGED <<n_train, n_test, opt_steps, ckpt_saves, summary_writes,
                   loss_seed, train_loss, test_loss>>
    /\ UNCHANGED notTrain

\* lines 720-725: invoke(early_stopping, ...) returns true: reload, append
\* the early-stopping line, break
EarlyStop ==
    /\ tr_pc = "check"
    /\ stopped' = TRUE
    /\ summary' = Append(summary, EarlyStoppingLine(epoch))
    /\ tr_pc' = "done"
    /\ UNCHANGED <<epoch, bi, n_train, n_test, opt_steps, ckpt_saves,
                   summary_writes, loss_seed, batch_loss, train_loss,
                   test_loss>>
    /\ UNCHANGED notTrain

\* lines 720, 727-733: invoke returns false: save, write the summary, save,
\* then the next value of range(num_epochs) (line 678 resets batch_loss) or
\* the end of the loop
EpochContinue ==
    /\ tr_pc = "check"
    /\ ckpt_saves' = ckpt_saves + 2
    /\ summary_writes' = summary_writes + 1
    /\ IF epoch + 1 < num_epochs
          THEN /\ epoch' = epoch + 1 /\ tr_pc' = "train" /\ bi' = 0
               /\ batch_loss' = 0
          ELSE /\ epoch' = epoch /\ tr_pc' = "done" /\ bi' = bi
               /\ batch_loss' = batch_loss
    /\ UNCHANGED <<n_train, n_test, stopped, opt_steps, loss_seed,
                   train_loss, test_loss, summary>>
    /\ UNCHANGED notTrain

NextTrain ==
    \/ TrainBatch \/ EndTrainPass \/ TestBatch \/ EndTestPass
    \/ EarlyStop \/ EpochContinue

SpecTrain == InitTrain /\ [][NextTrain]_vars

\* the script runs on: a batch, a pass or a check that can run does run
SpecTrainFair == SpecTrain /\ WF_vars(NextTrain)

\* C5: the training loop terminates: it runs epochs 0, 1, 2, ... in order,
\* at most num_epochs of them, and stops at the first epoch whose
\* early-stopping check returns true; after that there is no further
\* optimizer step, checkpoint save or summary write.
C5_TrainingLoopTerminates ==
    /\ [](epoch \in 0..(num_epochs - 1) /\ opt_steps <= num_epochs * n_train)
    /\ [][epoch' = epoch
            \/ (epoch' = epoch + 1 /\ tr_pc = "check" /\ ~stopped')]_vars
    /\ [][(stopped' /\ ~stopped) => (tr_pc = "check" /\ tr_pc' = "done")]_vars
    /\ [][stopped => UNCHANGED <<epoch, opt_steps, ckpt_saves,
                                 summary_writes>>]_vars
    /\ [](tr_pc = "done" =>
            /\ stopped \/ epoch = num_epochs - 1
            /\ summary_writes = IF stopped THEN epoch ELSE num_epochs
            /\ opt_steps = (epoch + 1) * n_train)
    /\ <>(tr_pc = "done")

C5_Witness ==
    /\ tr_pc = "done"
    /\ stopped
    /\ epoch = 2
    /\ opt_steps = 3 * n_train
    /\ ckpt_saves = 4

\* C11: when the early-stopping check of epoch e is reached, train_loss,
\* test_loss and summary all have e + 1 entries; batch_loss is 0 at the start
\* of the training pass and of the test pass; train_loss[e] is the sum of
\* that epoch's training batch losses divided by len(train_loader) and
\* test_loss[e] the sum of its test batch losses divided by len(test_loader),
\* nothing being carried over between passes or epochs.
\* sum of the losses of the first n batches of the given pass of epoch e
RECURSIVE PassLossSum(_, _, _)
PassLossSum(e, pass, n) ==
    IF n = 0 THEN 0
    ELSE PassLossSum(e, pass, n - 1) + BatchLoss(loss_seed, e, pass, n - 1)

C11_LossBookkeeping ==
    /\ tr_pc = "check" =>
          /\ Len(train_loss) = epoch + 1
          /\ Len(test_loss) = epoch + 1
          /\ Len(summary) = epoch + 1
          /\ \A e \in 0..epoch :
                /\ train_loss[e + 1][1] = PassLossSum(e, "train", n_train)
                /\ train_loss[e + 1][2] = n_train
                /\ test_loss[e + 1][1] = PassLossSum(e, "test", n_test)
                /\ test_loss[e + 1][2] = n_test
    /\ tr_pc \in {"train", "test"} =>
          batch_loss = PassLossSum(epoch, tr_pc, bi)

C11_Witness ==
    /\ tr_pc = "check"
    /\ epoch = 2
    /\ n_train = MaxBatches /\ n_test = MaxBatches
    /\ Len(train_loss) = 3
    /\ train_loss[3] # train_loss[2]
    /\ test_loss[3] # train_loss[3]

=============================================================================
